---- MODULE Spec2Model ----
(***************************************************************************)
(* Model of runtime_check.py: the recursive conformance predicate _check   *)
(* and the wrapper that binds arguments, checks them, calls the wrapped    *)
(* function and checks its result.                                         *)
(***************************************************************************)
EXTENDS Integers, Sequences, FiniteSets, TLC

VARIABLES
    host,       \* the interpreter's typing.get_args flavour ("py310" or "py311")
    pc,         \* position of the wrapper: "idle", "check", "ret", "done"
    contract,   \* index of the decorated function being called (0 when idle)
    posArgs,    \* positional arguments of the current call
    kwArgs,     \* keyword arguments of the current call
    bound,      \* bound.arguments after apply_defaults: sequence of [name, val]
    idx,        \* position of the parameter loop in bound
    invoked,    \* number of times func was called during the current call
    result,     \* the value func produced
    outcome,    \* what the wrapper delivered to its caller
    mval,       \* value handed to _check directly
    manno,      \* annotation handed to _check directly
    mphase,     \* "input" before _check ran on (mval, manno), "output" after
    mres        \* the boolean _check returned

vars == <<host, pc, contract, posArgs, kwArgs, bound, idx, invoked, result,
          outcome, mval, manno, mphase, mres>>

wrapperVars == <<pc, contract, posArgs, kwArgs, bound, idx, invoked, result, outcome>>
matchVars == <<mval, manno, mphase, mres>>

----------------------------------------------------------------------------
(* Bounds *)

MaxLen == 2     \* longest list / tuple / set value, and largest fixed-tuple arity
MaxDict == 1    \* most entries of a dict value
MaxPos == 2     \* most positional arguments of a call
MaxKw == 2      \* most keyword arguments of a call

Hosts == {"py310", "py311"}

----------------------------------------------------------------------------
(* Runtime values: [kind, atom, items].  Scalars carry their payload in    *)
(* atom; containers carry their elements in items (a dict carries its      *)
(* items() pairs, each a 2-tuple value).                                   *)

Val(k, a, its) == [kind |-> k, atom |-> a, items |-> its]

I2 == Val("int", 2, <<>>)
BT == Val("bool", 1, <<>>)
SA == Val("str", 0, <<>>)
NONE == Val("NoneType", 0, <<>>)
Unset == Val("<unset>", 0, <<>>)

AtomSeq == <<I2, BT, SA, NONE>>
Atoms == {AtomSeq[i] : i \in DOMAIN AtomSeq}
Rank(a) == CHOOSE i \in DOMAIN AtomSeq : AtomSeq[i] = a

SeqsUpTo(S, n) == UNION {[1..k -> S] : k \in 0..n}

ListV(its) == Val("list", 0, its)
TupleV(its) == Val("tuple", 0, its)
SetV(its) == Val("set", 0, its)
DictV(its) == Val("dict", 0, its)

Increasing(s) == \A i \in 1..(Len(s) - 1) : Rank(s[i]) < Rank(s[i + 1])

Lists == {ListV(s) : s \in SeqsUpTo(Atoms, MaxLen)}
Tuples == {TupleV(s) : s \in SeqsUpTo(Atoms, MaxLen)}
Sets == {SetV(s) : s \in {t \in SeqsUpTo(Atoms, MaxLen) : Increasing(t)}}
Pairs == {TupleV(<<k, v>>) : k \in Atoms, v \in Atoms}
Dicts ==
    {DictV(s) : s \in {t \in SeqsUpTo(Pairs, MaxDict) :
        \A i \in 1..(Len(t) - 1) : Rank(t[i].items[1]) < Rank(t[i + 1].items[1])}}

Values == Atoms \cup Lists \cup Tuples \cup Sets \cup Dicts

----------------------------------------------------------------------------
(* Annotations as get_origin / get_args see them: [origin, cls, sub, args]. *)
(* origin "None" is a plain class or special form named by cls; sub tells   *)
(* whether the generic alias was subscripted.                               *)

Anno(o, c, s, as) == [origin |-> o, cls |-> c, sub |-> s, args |-> as]

Cls(c) == Anno("None", c, FALSE, <<>>)
AnyT == Cls("Any")
EllipsisT == Cls("Ellipsis")
EmptyTupleObj == Cls("()")
UnionT(opts) == Anno("Union", "", TRUE, opts)
ListOf(e) == Anno("list", "", TRUE, <<e>>)
SetOf(e) == Anno("set", "", TRUE, <<e>>)
BareList == Anno("list", "", FALSE, <<>>)
BareSet == Anno("set", "", FALSE, <<>>)
BareTuple == Anno("tuple", "", FALSE, <<>>)
FixedTuple(as) == Anno("tuple", "", TRUE, as)
VariadicTuple(e) == Anno("tuple", "", TRUE, <<e, EllipsisT>>)
MappingOf(k, v) == Anno("dict", "", TRUE, <<k, v>>)
BareDict == Anno("dict", "", FALSE, <<>>)
OtherT == Anno("other", "", TRUE, <<>>)

IntT == Cls("int")
StrT == Cls("str")
BoolT == Cls("bool")

----------------------------------------------------------------------------
(* typing.get_origin / typing.get_args and isinstance, as _check uses them. *)

GetOrigin(anno) == anno.origin

\* get_args(tuple[()]) is () from Python 3.11 on and ((),) before.
GetArgs(anno) ==
    IF anno.origin = "tuple" /\ anno.sub /\ anno.args = <<>> /\ host = "py310"
    THEN <<EmptyTupleObj>>
    ELSE anno.args

\* The classes a value of the given runtime kind is an instance of.
MRO(kind) == IF kind = "bool" THEN {"bool", "int", "object"} ELSE {kind, "object"}

\* isinstance(value, anno) raises TypeError for these special forms.
RaisesTypeError(cls) == cls \in {"Any", "Ellipsis"}

IsInstanceExact(value, cls) == value.kind = cls

IsInstance(value, cls) == cls \in MRO(value.kind)

----------------------------------------------------------------------------
(* _check(value, anno) *)

RECURSIVE Check(_, _), AllFrom(_, _, _), AnyFrom(_, _, _), ZipStrictAll(_, _, _),
          DictAll(_, _, _, _)

\* all(_check(v, anno) for v in items), from position i on
AllFrom(items, anno, i) ==
    IF i > Len(items) THEN TRUE
    ELSE IF ~Check(items[i], anno) THEN FALSE
    ELSE AllFrom(items, anno, i + 1)

AnyFromFirstOnly(value, opts, i) == i <= Len(opts) /\ Check(value, opts[i])

\* any(_check(value, opt) for opt in opts), from position i on
AnyFrom(value, opts, i) ==
    IF i > Len(opts) THEN FALSE
    ELSE IF Check(value, opts[i]) THEN TRUE
    ELSE AnyFrom(value, opts, i + 1)

\* all(_check(v, a) for v, a in zip(items, args, strict=True)), where zip
\* raises ValueError (caught: False) once exactly one side is exhausted
ZipStrictAll(items, args, i) ==
    IF i > Len(items) /\ i > Len(args) THEN TRUE
    ELSE IF i > Len(items) \/ i > Len(args) THEN FALSE
    ELSE IF ~Check(items[i], args[i]) THEN FALSE
    ELSE ZipStrictAll(items, args, i + 1)

\* all(_check(k, k_t) and _check(v, v_t) for k, v in value.items())
DictAll(items, k_t, v_t, i) ==
    IF i > Len(items) THEN TRUE
    ELSE IF ~(Check(items[i].items[1], k_t) /\ Check(items[i].items[2], v_t)) THEN FALSE
    ELSE DictAll(items, k_t, v_t, i + 1)

CheckPlain(value, anno) ==
    IF RaisesTypeError(anno.cls) THEN TRUE ELSE IsInstance(value, anno.cls)

CheckUnion(value, args) == AnyFrom(value, args, 1)

CheckListNoKind(value, args) == args = <<>> \/ AllFrom(value.items, args[1], 1)

CheckList(value, args) ==
    IF ~IsInstance(value, "list") THEN FALSE
    ELSE args = <<>> \/ AllFrom(value.items, args[1], 1)

CheckSet(value, args) ==
    IF ~IsInstance(value, "set") THEN FALSE
    ELSE args = <<>> \/ AllFrom(value.items, args[1], 1)

CheckTuple(value, args) ==
    IF ~IsInstance(value, "tuple") THEN FALSE
    ELSE IF args = <<>> THEN TRUE
    ELSE IF Len(args) = 2 /\ args[2] = EllipsisT THEN AllFrom(value.items, args[1], 1)
    ELSE ZipStrictAll(value.items, args, 1)

CheckDict(value, args) ==
    IF ~IsInstance(value, "dict") THEN FALSE
    ELSE LET kv == IF args = <<>> THEN <<Cls("object"), Cls("object")>> ELSE args
         IN DictAll(value.items, kv[1], kv[2], 1)

Check(value, anno) ==
    LET origin == GetOrigin(anno)
        args == GetArgs(anno)
    IN IF origin = "None" THEN CheckPlain(value, anno)
       ELSE IF origin = "Union" THEN CheckUnion(value, args)
       ELSE IF origin = "list" THEN CheckList(value, args)
       ELSE IF origin = "set" THEN CheckSet(value, args)
       ELSE IF origin = "tuple" THEN CheckTuple(value, args)
       ELSE IF origin = "dict" THEN CheckDict(value, args)
       ELSE TRUE

----------------------------------------------------------------------------
(* The annotations and values _check is exercised on directly. *)

Primitives == {IntT, StrT, BoolT, Cls("NoneType"), Cls("object")}
ElemAnnos == {IntT, StrT, BoolT, AnyT, Cls("object")}
FixedElems == {IntT, StrT}
FixedTuples == {FixedTuple(s) : s \in SeqsUpTo(FixedElems, MaxLen)}
UnionBase ==
    {IntT, StrT, FixedTuple(<<IntT, IntT>>), VariadicTuple(IntT), ListOf(IntT),
     FixedTuple(<<>>)}
Unions == {UnionT(<<p[1], p[2]>>) : p \in {q \in UnionBase \X UnionBase : q[1] # q[2]}}

Annos ==
    Primitives \cup {AnyT, Cls("list"), Cls("set"), Cls("tuple"), Cls("dict")}
    \cup {ListOf(e) : e \in ElemAnnos} \cup {SetOf(e) : e \in ElemAnnos}
    \cup {VariadicTuple(e) : e \in ElemAnnos}
    \cup {BareList, BareSet, BareTuple, BareDict, OtherT}
    \cup {MappingOf(StrT, IntT), MappingOf(IntT, AnyT)}
    \cup FixedTuples \cup Unions

IdleWrapper ==
    /\ pc = "idle"
    /\ contract = 0
    /\ posArgs = <<>>
    /\ kwArgs = <<>>
    /\ bound = <<>>
    /\ idx = 0
    /\ invoked = 0
    /\ result = Unset
    /\ outcome = [status |-> "none", exc |-> "", msg |-> "", name |-> "", value |-> Unset]

InitMatches ==
    /\ host \in Hosts
    /\ IdleWrapper
    /\ mval \in Values
    /\ manno \in Annos
    /\ mphase = "input"
    /\ mres = FALSE

\* one call matches(mval, manno)
Match ==
    /\ mphase = "input"
    /\ mres' = Check(mval, manno)
    /\ mphase' = "output"
    /\ UNCHANGED <<host, mval, manno>>
    /\ UNCHANGED wrapperVars

NextMatches == Match

SpecMatches == InitMatches /\ [][NextMatches]_vars

----------------------------------------------------------------------------
(* Properties of _check, checked under SpecMatches. *)

Matched == mphase = "output"
IsPlainClass(anno) == anno.origin = "None" /\ ~RaisesTypeError(anno.cls)
IsFixedTuple(anno) ==
    /\ anno.origin = "tuple"
    /\ anno.sub
    /\ ~(Len(anno.args) = 2 /\ anno.args[2] = EllipsisT)
IsVariadicTuple(anno) ==
    anno.origin = "tuple" /\ Len(anno.args) = 2 /\ anno.args[2] = EllipsisT
SubKind(k, c) == k = c \/ (k = "bool" /\ c = "int") \/ c = "object"
Reverse(s) == [i \in DOMAIN s |-> s[Len(s) + 1 - i]]

\* C6 as stated: a plain class accepts a value iff the value's runtime kind
\* is exactly that class (so a bool is not accepted as an int).
C6_ExactKind ==
    (Matched /\ IsPlainClass(manno)) => (mres = (mval.kind = manno.cls))

\* C6 amended: a plain class accepts a value iff the value's runtime kind is
\* that class or a sub-kind of it (bool under int, everything under object).
C6_SubKind ==
    (Matched /\ IsPlainClass(manno)) => (mres = SubKind(mval.kind, manno.cls))

C6_Witness == Matched /\ manno = IntT /\ mval = BT /\ mres

\* C7: a fixed tuple of arity n >= 0 accepts exactly the tuples of length n
\* whose elements match position by position; anything else is rejected.
C7_FixedTuple ==
    (Matched /\ IsFixedTuple(manno)) =>
        (mres = (/\ mval.kind = "tuple"
                 /\ Len(mval.items) = Len(manno.args)
                 /\ \A i \in DOMAIN manno.args : Check(mval.items[i], manno.args[i])))

\* C8: list[E] / set[E] reject a value of another container kind and
\* otherwise accept iff every element matches E (any element when E is absent).
C8_ListSet ==
    (Matched /\ manno.origin \in {"list", "set"}) =>
        (mres = (/\ mval.kind = manno.origin
                 /\ (manno.args = <<>>
                     \/ \A i \in DOMAIN mval.items : Check(mval.items[i], manno.args[1]))))

C8_Witness ==
    /\ Matched
    /\ manno = ListOf(StrT)
    /\ mval.kind = "set"
    /\ mval.items # <<>>
    /\ \A i \in DOMAIN mval.items : Check(mval.items[i], StrT)
    /\ ~mres

TestUnion == UnionT(<<FixedTuple(<<IntT, IntT>>), VariadicTuple(IntT)>>)

\* C9: a union accepts iff some option accepts, whatever the order of the
\* options; tuple[int, int] | tuple[int, ...] accepts int tuples of every
\* length and rejects a tuple holding a string.
C9_Union ==
    (Matched /\ manno.origin = "Union") =>
        /\ mres = (\E i \in DOMAIN manno.args : Check(mval, manno.args[i]))
        /\ mres = Check(mval, UnionT(Reverse(manno.args)))
        /\ (manno = TestUnion /\ mval.kind = "tuple") =>
              /\ (\A i \in DOMAIN mval.items : mval.items[i].kind = "int") => mres
              /\ (\E i \in DOMAIN mval.items : mval.items[i].kind = "str") => ~mres

C9_Witness == Matched /\ manno = TestUnion /\ mval = TupleV(<<I2>>) /\ mres

----------------------------------------------------------------------------
(* Decorated functions: the signature and hints captured at decoration     *)
(* time.  A parameter is [name, hasAnno, anno, hasDefault, default].       *)

Param(n, ha, a, hd, d) ==
    [name |-> n, hasAnno |-> ha, anno |-> a, hasDefault |-> hd, default |-> d]
Required(n, a) == Param(n, TRUE, a, FALSE, Unset)
Defaulted(n, a, d) == Param(n, TRUE, a, TRUE, d)
Unannotated(n) == Param(n, FALSE, AnyT, FALSE, Unset)

Func(ps, hr, r) == [params |-> ps, hasRet |-> hr, ret |-> r]

\* def greet(name: str) -> str
greet == Func(<<Required("name", StrT)>>, TRUE, StrT)
\* def add_all(numbers: list[int]) -> int
add_all == Func(<<Required("numbers", ListOf(IntT))>>, TRUE, IntT)
\* def collect(point: tuple[int, int] | tuple[int, ...], tags: set[str]) -> dict[str, int]
collect ==
    Func(<<Required("point", TestUnion), Required("tags", SetOf(StrT))>>,
         TRUE, MappingOf(StrT, IntT))
\* def scale(a: int, b: str = 2) -> int
scale == Func(<<Required("a", IntT), Defaulted("b", StrT, I2)>>, TRUE, IntT)
\* def label(a, b: int = 2, c: str = "a")
label ==
    Func(<<Unannotated("a"), Defaulted("b", IntT, I2), Defaulted("c", StrT, SA)>>,
         FALSE, AnyT)
\* def pair(x: int = "a", y: str = 2) -> int
pair == Func(<<Defaulted("x", IntT, SA), Defaulted("y", StrT, I2)>>, TRUE, IntT)

Funcs == <<greet, add_all, collect, scale, label, pair>>

\* The argument values callers pass to each function, and the values its
\* body may produce.
ArgPool(c) ==
    CASE c = 1 -> {SA, I2, BT}
      [] c = 2 -> {ListV(<<I2, I2>>), ListV(<<SA>>), ListV(<<>>), I2}
      [] c = 3 -> {TupleV(<<I2, I2>>), TupleV(<<SA, I2>>), TupleV(<<I2>>), SetV(<<SA>>)}
      [] c = 4 -> {I2, SA, BT}
      [] c = 5 -> {I2, SA, NONE}
      [] OTHER -> {I2, SA}

RetPool(c) ==
    CASE c = 1 -> {SA, I2}
      [] c = 2 -> {I2, SA}
      [] c = 3 -> {DictV(<<TupleV(<<SA, I2>>)>>), DictV(<<>>), I2}
      [] c = 4 -> {I2, SA}
      [] c = 5 -> {NONE, I2}
      [] OTHER -> {I2, NONE}

ParamNames(c) == {Funcs[c].params[i].name : i \in DOMAIN Funcs[c].params}
KwNames(c) == ParamNames(c) \cup {"zz"}
KwArgSets(c) ==
    UNION {[D -> ArgPool(c)] : D \in {E \in SUBSET KwNames(c) : Cardinality(E) <= MaxKw}}

----------------------------------------------------------------------------
(* sig.bind and bound.apply_defaults *)

BindErrorClass == "TypeError"
ArgumentErrorClass == "TypeError"
ReturnErrorClass == "TypeError"

TooMany == "too many positional arguments"
Multiple == "multiple values for argument"
Missing == "missing a required argument"
Unexpected == "got an unexpected keyword argument"
BindMsgs == {TooMany, Multiple, Missing, Unexpected}

NoError == [msg |-> "", name |-> ""]

\* The TypeError sig.bind raises, or NoError.
BindError(params, pos, kw) ==
    LET badPos == {i \in DOMAIN pos : i > Len(params) \/ params[i].name \in DOMAIN kw}
        missing == {i \in DOMAIN params :
                      /\ i > Len(pos)
                      /\ params[i].name \notin DOMAIN kw
                      /\ ~params[i].hasDefault}
        names == {params[i].name : i \in DOMAIN params}
        extra == DOMAIN kw \ names
        Min(S) == CHOOSE x \in S : \A y \in S : x <= y
    IN IF badPos # {}
       THEN IF Min(badPos) > Len(params)
            THEN [msg |-> TooMany, name |-> ""]
            ELSE [msg |-> Multiple, name |-> params[Min(badPos)].name]
       ELSE IF missing # {}
       THEN [msg |-> Missing, name |-> params[Min(missing)].name]
       ELSE IF extra # {}
       THEN [msg |-> Unexpected, name |-> CHOOSE n \in extra : TRUE]
       ELSE NoError

RECURSIVE BindFrom(_, _, _, _), DefaultsFrom(_, _, _)

\* bound.arguments after a successful bind: the supplied parameters, in the
\* order the signature declares them.
BindFrom(params, pos, kw, i) ==
    IF i > Len(params) THEN <<>>
    ELSE IF i <= Len(pos)
         THEN <<[name |-> params[i].name, val |-> pos[i]]>> \o BindFrom(params, pos, kw, i + 1)
    ELSE IF params[i].name \in DOMAIN kw
         THEN <<[name |-> params[i].name, val |-> kw[params[i].name]]>>
              \o BindFrom(params, pos, kw, i + 1)
    ELSE BindFrom(params, pos, kw, i + 1)

Bind(params, pos, kw) == BindFrom(params, pos, kw, 1)

Lookup(arguments, n) == {j \in DOMAIN arguments : arguments[j].name = n}

\* apply_defaults rebuilds the arguments in signature order, taking the
\* default of every parameter that was not supplied.
DefaultsFrom(params, arguments, i) ==
    IF i > Len(params) THEN <<>>
    ELSE IF Lookup(arguments, params[i].name) # {}
         THEN <<arguments[CHOOSE j \in Lookup(arguments, params[i].name) : TRUE]>>
              \o DefaultsFrom(params, arguments, i + 1)
    ELSE IF params[i].hasDefault
         THEN <<[name |-> params[i].name, val |-> params[i].default]>>
              \o DefaultsFrom(params, arguments, i + 1)
    ELSE DefaultsFrom(params, arguments, i + 1)

ApplyDefaultsOmitted(params, arguments) == arguments

ApplyDefaultsAppended(params, arguments) ==
    arguments \o SelectSeq(DefaultsFrom(params, arguments, 1),
                           LAMBDA e : Lookup(arguments, e.name) = {})

ApplyDefaults(params, arguments) == DefaultsFrom(params, arguments, 1)

\* hints.get(name)
Hint(c, n) ==
    LET ps == Funcs[c].params
        at == {i \in DOMAIN ps : ps[i].name = n /\ ps[i].hasAnno}
    IN IF at = {} THEN [has |-> FALSE, anno |-> AnyT]
       ELSE [has |-> TRUE, anno |-> ps[CHOOSE i \in at : TRUE].anno]

\* hints.get("return")
RetHint(c) == [has |-> Funcs[c].hasRet, anno |-> Funcs[c].ret]

----------------------------------------------------------------------------
(* The wrapper, one action per step of its body *)

NoOutcome == [status |-> "none", exc |-> "", msg |-> "", name |-> "", value |-> Unset]
Raised(e, m, n, v) == [status |-> "raised", exc |-> e, msg |-> m, name |-> n, value |-> v]
Returned(v) == [status |-> "returned", exc |-> "", msg |-> "", name |-> "", value |-> v]

Init ==
    /\ host \in Hosts
    /\ IdleWrapper
    /\ mval = Unset
    /\ manno = AnyT
    /\ mphase = "off"
    /\ mres = FALSE

\* The caller invokes decorated function c; lines 154-155 bind the arguments
\* and apply the defaults, or sig.bind raises.
Call ==
    /\ pc = "idle"
    /\ \E c \in DOMAIN Funcs :
       \E pos \in SeqsUpTo(ArgPool(c), MaxPos) :
       \E kw \in KwArgSets(c) :
          LET err == BindError(Funcs[c].params, pos, kw)
          IN /\ contract' = c
             /\ posArgs' = pos
             /\ kwArgs' = kw
             /\ invoked' = 0
             /\ result' = Unset
             /\ IF err # NoError
                THEN /\ outcome' = Raised(BindErrorClass, err.msg, err.name, Unset)
                     /\ bound' = <<>>
                     /\ idx' = 0
                     /\ pc' = "done"
                ELSE /\ outcome' = NoOutcome
                     /\ bound' = ApplyDefaults(Funcs[c].params,
                                               Bind(Funcs[c].params, pos, kw))
                     /\ idx' = 1
                     /\ pc' = "check"
    /\ UNCHANGED <<host, mval, manno, mphase, mres>>

CheckParamNoRaise ==
    /\ pc = "check"
    /\ idx <= Len(bound)
    /\ idx' = idx + 1
    /\ UNCHANGED <<pc, outcome, host, contract, posArgs, kwArgs, bound, invoked, result>>
    /\ UNCHANGED matchVars

\* One iteration of the loop over bound.arguments.items().
CheckParam ==
    /\ pc = "check"
    /\ idx <= Len(bound)
    /\ LET name == bound[idx].name
           val == bound[idx].val
           h == Hint(contract, name)
       IN IF h.has /\ ~Check(val, h.anno)
          THEN /\ outcome' = Raised(ArgumentErrorClass, "Argument", name, val)
               /\ pc' = "done"
               /\ idx' = idx
          ELSE /\ idx' = idx + 1
               /\ UNCHANGED <<pc, outcome>>
    /\ UNCHANGED <<host, contract, posArgs, kwArgs, bound, invoked, result>>
    /\ UNCHANGED matchVars

\* The call of func, its body producing a value.
Invoke ==
    /\ pc = "check"
    /\ idx > Len(bound)
    /\ \E r \in RetPool(contract) : result' = r
    /\ invoked' = invoked + 1
    /\ pc' = "ret"
    /\ UNCHANGED <<host, contract, posArgs, kwArgs, bound, idx, outcome>>
    /\ UNCHANGED matchVars

\* The call of func raising an exception of its own, which propagates.
InvokeRaises ==
    /\ pc = "check"
    /\ idx > Len(bound)
    /\ invoked' = invoked + 1
    /\ outcome' = Raised("Exception", "func", "", Unset)
    /\ pc' = "done"
    /\ UNCHANGED <<host, contract, posArgs, kwArgs, bound, idx, result>>
    /\ UNCHANGED matchVars

CheckReturnUnchecked ==
    /\ pc = "ret"
    /\ outcome' = Returned(result)
    /\ pc' = "done"
    /\ UNCHANGED <<host, contract, posArgs, kwArgs, bound, idx, invoked, result>>
    /\ UNCHANGED matchVars

CheckReturnDropsResult ==
    /\ pc = "ret"
    /\ LET h == RetHint(contract)
       IN IF h.has /\ ~Check(result, h.anno)
          THEN outcome' = Raised(ReturnErrorClass, "Return", "return", result)
          ELSE outcome' = Returned(NONE)
    /\ pc' = "done"
    /\ UNCHANGED <<host, contract, posArgs, kwArgs, bound, idx, invoked, result>>
    /\ UNCHANGED matchVars

\* The check of the return value and the return statement.
CheckReturn ==
    /\ pc = "ret"
    /\ LET h == RetHint(contract)
       IN IF h.has /\ ~Check(result, h.anno)
          THEN outcome' = Raised(ReturnErrorClass, "Return", "return", result)
          ELSE outcome' = Returned(result)
    /\ pc' = "done"
    /\ UNCHANGED <<host, contract, posArgs, kwArgs, bound, idx, invoked, result>>
    /\ UNCHANGED matchVars

\* The call is over; the wrapper keeps nothing of it.
Finish ==
    /\ pc = "done"
    /\ pc' = "idle"
    /\ contract' = 0
    /\ posArgs' = <<>>
    /\ kwArgs' = <<>>
    /\ bound' = <<>>
    /\ idx' = 0
    /\ invoked' = 0
    /\ result' = Unset
    /\ outcome' = NoOutcome
    /\ UNCHANGED <<host, mval, manno, mphase, mres>>

Next == Call \/ CheckParam \/ Invoke \/ InvokeRaises \/ CheckReturn \/ Finish

Spec == Init /\ [][Next]_vars

----------------------------------------------------------------------------
(* Properties of the wrapper, checked under Spec.  They are stated over    *)
(* the declared signature and the caller's arguments, not over bound.      *)

Calling == contract # 0
CurParams == Funcs[contract].params
BindOK == Calling /\ BindError(CurParams, posArgs, kwArgs) = NoError
Supplied(i) == i <= Len(posArgs) \/ CurParams[i].name \in DOMAIN kwArgs
\* the value parameter i has in the call: the caller's or the default
Effective(i) ==
    IF i <= Len(posArgs) THEN posArgs[i]
    ELSE IF CurParams[i].name \in DOMAIN kwArgs THEN kwArgs[CurParams[i].name]
    ELSE CurParams[i].default
Fails(i) == CurParams[i].hasAnno /\ ~Check(Effective(i), CurParams[i].anno)
Failing == {i \in DOMAIN CurParams : Fails(i)}
FirstFailing == CHOOSE i \in Failing : \A j \in Failing : i <= j
ArgumentViolation(i) ==
    Raised(ArgumentErrorClass, "Argument", CurParams[i].name, Effective(i))
Over == pc = "done"

\* C1: within one call func runs at most once, only after a successful bind
\* with every annotated parameter passing; an argument failure means func
\* never ran.
C1_InvokedOnceAfterChecks ==
    /\ invoked <= 1
    /\ invoked = 1 => (BindOK /\ Failing = {})
    /\ (outcome.status = "raised" /\ outcome.msg = "Argument") => invoked = 0

C1_Witness == pc = "ret" /\ contract = 3 /\ invoked = 1 /\ Failing = {}

\* C2: when bound arguments fail, the call ends in an argument violation
\* naming the first failing parameter in declared order, however the caller
\* supplied the arguments; the loop walks the parameters in declared order.
C2_FirstFailingInDeclaredOrder ==
    /\ (Over /\ BindOK /\ Failing # {}) => outcome = ArgumentViolation(FirstFailing)
    /\ (pc = "check") =>
          /\ \A i \in DOMAIN bound : bound[i].name = CurParams[i].name
          /\ \A i \in 1..(idx - 1) : ~Fails(i)

C2_Witness ==
    /\ Over
    /\ contract = 6
    /\ posArgs = <<>>
    /\ DOMAIN kwArgs = {"y"}
    /\ Cardinality(Failing) = 2
    /\ outcome.msg = "Argument"
    /\ outcome.name = "x"

\* C3: the error class of a binding failure differs from the class raised
\* for an argument violation and from the class raised for a return violation.
C3_BindingErrorDistinct ==
    (outcome.status = "raised" /\ outcome.msg \in BindMsgs) =>
        outcome.exc \notin {ArgumentErrorClass, ReturnErrorClass}

\* C4: a result that fails the return annotation is not returned: the call
\* ends in a violation at the return position, raised after func ran exactly
\* once, and nothing of the call runs after it.
C4_ReturnViolation ==
    /\ (Over /\ result # Unset /\ RetHint(contract).has
             /\ ~Check(result, RetHint(contract).anno)) =>
          (outcome = Raised(ReturnErrorClass, "Return", "return", result) /\ invoked = 1)
    /\ (outcome.msg = "Return") =>
          (invoked = 1 /\ BindOK /\ Failing = {} /\ result # Unset)
    /\ Over => ~ENABLED (CheckParam \/ Invoke \/ InvokeRaises \/ CheckReturn)

C4_Witness ==
    /\ Over
    /\ contract = 3
    /\ result = I2
    /\ outcome.msg = "Return"
    /\ invoked = 1

\* C5: when the bind succeeds, every argument passes and the result passes,
\* the call returns the very value func produced.
C5_ReturnsResultUnchanged ==
    (Over /\ BindOK /\ Failing = {} /\ result # Unset
          /\ (RetHint(contract).has => Check(result, RetHint(contract).anno))) =>
        outcome = Returned(result)

C5_Witness ==
    /\ Over
    /\ contract = 2
    /\ posArgs = <<ListV(<<I2, I2>>)>>
    /\ result = I2
    /\ outcome = Returned(I2)

ReliesOnBadDefault(i) ==
    BindOK /\ ~Supplied(i) /\ CurParams[i].hasDefault /\ Fails(i)

\* C10 as stated: a call relying on a non-conforming default ends in an
\* argument violation naming that very parameter, func not run.
C10_NamesDefaultedParameter ==
    Over => \A i \in DOMAIN CurParams :
        ReliesOnBadDefault(i) =>
            /\ outcome.status = "raised"
            /\ outcome.msg = "Argument"
            /\ outcome.name = CurParams[i].name
            /\ invoked = 0

\* C10 amended: a call relying on a non-conforming default ends in an
\* argument violation, func not run; the violation names the first failing
\* parameter in declared order, which is the defaulted one unless a parameter
\* declared before it fails too.
C10_DefaultIsChecked ==
    Over => \A i \in DOMAIN CurParams :
        ReliesOnBadDefault(i) =>
            /\ outcome = ArgumentViolation(FirstFailing)
            /\ invoked = 0
            /\ (\A j \in 1..(i - 1) : ~Fails(j)) =>
                  (outcome.name = CurParams[i].name
                   /\ outcome.value = CurParams[i].default)

C10_Witness ==
    /\ Over
    /\ contract = 4
    /\ posArgs = <<I2>>
    /\ kwArgs = <<>>
    /\ outcome.msg = "Argument"
    /\ outcome.name = "b"
    /\ invoked = 0

====
